---- MODULE Spec2Model ----
(***************************************************************************)
(* A model of the chat service of nawafilhusnul/chatflow                   *)
(* (src/src/infrastructure/services/chat.service.ts).  The file holds two  *)
(* versions of class ChatService: lines 1-446 ("variant B", sendMessage    *)
(* without presence) and lines 448-888 ("variant A", presence-aware        *)
(* sendMessage).  A deployment runs one of them; `variant' says which.     *)
(*                                                                         *)
(* The document store (Firestore) is modelled by what the service relies   *)
(* on: a read (getDoc, getDocs) is one atomic step, a write (addDoc,       *)
(* updateDoc, batch.commit) is one atomic step, and every `await' between  *)
(* them is a point where another client may act.                           *)
(*                                                                         *)
(* The user service (src/unnamed/part_003, second class UserService, lines *)
(* 271-738) keeps the profile documents: usernames, friends and friend     *)
(* requests.                                                               *)
(***************************************************************************)
EXTENDS Integers, Sequences, FiniteSets

VARIABLES
    variant,    \* "A" or "B": which version of ChatService is deployed
    rooms,      \* collection chatRooms: rooms[id] is the room document
    messages,   \* messages[id]: the subcollection chatRooms/id/messages, in commit order
    clock,      \* the store's time, behind serverTimestamp()
    skew,       \* skew[c]: how far the device clock of client c is ahead of it
    cl,         \* cl[c]: the call client c is executing, and what its last call returned
    session,    \* session[c]: auth.currentUser on client c, NoUser when signed out
    profiles    \* collection users: profiles[u] is the profile document of user u

vars == <<variant, rooms, messages, clock, skew, cl, session, profiles>>

(***************************************************************************)
(* Bounds and input sets                                                   *)
(***************************************************************************)
MaxRooms == 2
MaxMsgs == 1
MaxFriends == 2

Users == {"u1", "u2", "u3"}
NoUser == "none"
Clients == {1, 2}
RoomIds == 1..MaxRooms
\* The room the message ledger is followed in: a call on a room reads and writes
\* that room's document and its own messages, and no other room's.
LedgerRooms == {1}

\* Texts are tuples of characters, so that trim() is computed, not assumed.
Texts == {<<" ">>, <<"a", " ">>}
Names == {<<" ">>, <<"g", " ">>}
\* participantIds arguments of createGroupChat (with a repeated id and the admin itself)
IdLists == {<<"u2">>, <<"u2", "u1", "u2">>}
\* The arguments the calls are made with.  u1 creates the rooms and is the
\* groups' admin, u2 is the other member, u3 joins later.
Pairs == {<<"u1", "u2">>, <<"u2", "u1">>}
Admins == {"u1"}
Actors == {"u1", "u2"}
Joiners == {"u2", "u3"}
Leavers == {"u2", "u3"}
Senders == {"u1", "u2"}
Readers == {"u2", "u3"}
PresenceUsers == {"u2"}

(***************************************************************************)
(* Helpers: strings, maps with a partial domain, arrays                    *)
(***************************************************************************)
RECURSIVE TrimLeft(_)
TrimLeft(s) == IF s # <<>> /\ Head(s) = " " THEN TrimLeft(Tail(s)) ELSE s

RECURSIVE TrimRight(_)
TrimRight(s) ==
    IF s # <<>> /\ s[Len(s)] = " " THEN TrimRight(SubSeq(s, 1, Len(s) - 1)) ELSE s

Trim(s) == TrimRight(TrimLeft(s))

EmptyMap == [u \in {} |-> TRUE]

Put(m, k, v) == [x \in (DOMAIN m) \cup {k} |-> IF x = k THEN v ELSE m[x]]

\* chatData.unreadCount?.[userId] || 0
Count(m, u) == IF u \in DOMAIN m THEN m[u] ELSE 0

Range(s) == {s[i] : i \in DOMAIN s}

Includes(s, x) == x \in Range(s)

RECURSIVE Dedup(_)
\* [...new Set(list)]: first occurrences, in order
Dedup(s) ==
    IF s = <<>> THEN <<>>
    ELSE LET init == Dedup(SubSeq(s, 1, Len(s) - 1))
             last == s[Len(s)]
         IN IF Includes(init, last) THEN init ELSE Append(init, last)

\* arrayUnion as a plain append.
ArrayUnion_Append(s, x) == Append(s, x)

\* arrayUnion(x): appended unless present
ArrayUnion(s, x) == IF Includes(s, x) THEN s ELSE Append(s, x)

\* arrayRemove(x): every occurrence removed
ArrayRemove(s, x) == SelectSeq(s, LAMBDA y : y # x)

TotalMsgs == LET RECURSIVE Sum(_)
                 Sum(i) == IF i = 0 THEN 0 ELSE Len(messages[i]) + Sum(i - 1)
             IN Sum(Len(messages))

\* Variant A reads the clock before its commit, which may fail.  Every room
\* written and every send past its checks has read the clock once, so this is
\* the number of sends attempted; one more than MaxMsgs may be.
SendAttempts == clock - Len(rooms)

MaxAttempts == MaxMsgs + 1

(***************************************************************************)
(* Client call state                                                       *)
(***************************************************************************)
Ret(err, id) == [err |-> err, id |-> id]

\* A profile document that does not exist; a field that is absent reads as
\* empty (every read in the service is `x || []' or a truthiness test).
NoProfile ==
    [exists |-> FALSE, email |-> <<>>, username |-> <<>>,
     friends |-> <<>>, sent |-> <<>>, received |-> <<>>, lastSeen |-> 0]

Idle(ret) ==
    [pc |-> "idle", room |-> 0, a |-> NoUser, b |-> NoUser, text |-> <<>>,
     readBy |-> EmptyMap, upd |-> EmptyMap, ts |-> 0, ids |-> {}, ret |-> ret,
     kind |-> "", type |-> "", got |-> "", ud |-> NoProfile, fd |-> NoProfile,
     email |-> <<>>, username |-> <<>>, counter |-> 0]

Returns(c, ret) == cl' = [cl EXCEPT ![c] = Idle(ret)]

Goto(c, rec) == cl' = [cl EXCEPT ![c] = rec]

Exists(id) == id \in 1..Len(rooms)

\* Bounds on the model: a call that may add a room (a message) starts only while
\* the rooms (messages) written and about to be written stay within the bound.
RoomBudget(n) ==
    Len(rooms) + Cardinality({d \in Clients : cl[d].pc \in {"cpFind", "cpWrite"}}) < n

MsgBudget ==
    TotalMsgs + Cardinality({d \in Clients : cl[d].pc = "sendCommit"}) < MaxMsgs

(***************************************************************************)
(* Time                                                                    *)
(***************************************************************************)
\* A reading of the clock returns `clock', and time moves on.
ClockRead == clock' = clock + 1

\* Timestamp.now() on the device of client c.
Now(c) == clock + skew[c]

(***************************************************************************)
(* Room Registry                                                           *)
(***************************************************************************)
LastMessage(text, sender, ts, readBy) ==
    [text |-> text, senderId |-> sender, timestamp |-> ts, readBy |-> readBy]

\* The document createPrivateChat writes.  With user1Id = user2Id the second
\* computed key of each object literal overwrites the first.
PrivateRoom(user1Id, user2Id, ts) ==
    [type |-> "private",
     name |-> <<>>,
     participants |-> <<user1Id, user2Id>>,
     groupAdmin |-> NoUser,
     createdAt |-> ts,
     lastMessage |-> LastMessage(<<"Chat created">>, user1Id, ts,
                                 Put(Put(EmptyMap, user1Id, TRUE), user2Id, FALSE)),
     unreadCount |-> Put(Put(EmptyMap, user1Id, 0), user2Id, 1),
     activeUsers |-> EmptyMap,
     displayNames |-> EmptyMap]

\* The group document with the id list taken as given, repeats included.
GroupRoom_ListKept(name, adminId, participantIds, ts) ==
    [type |-> "group",
     name |-> Trim(name),
     participants |-> <<adminId>> \o participantIds,
     groupAdmin |-> adminId,
     createdAt |-> ts,
     lastMessage |-> LastMessage(<<"Group created">>, adminId, ts,
                                 Put(EmptyMap, adminId, TRUE)),
     unreadCount |-> EmptyMap,
     activeUsers |-> EmptyMap,
     displayNames |-> EmptyMap]

\* The document createGroupChat writes (no unreadCount field).
GroupRoom(name, adminId, participantIds, ts) ==
    [type |-> "group",
     name |-> Trim(name),
     participants |-> Dedup(<<adminId>> \o participantIds),
     groupAdmin |-> adminId,
     createdAt |-> ts,
     lastMessage |-> LastMessage(<<"Group created">>, adminId, ts,
                                 Put(EmptyMap, adminId, TRUE)),
     unreadCount |-> EmptyMap,
     activeUsers |-> EmptyMap,
     displayNames |-> EmptyMap]

\* addDoc(collection(db, 'chatRooms'), chatRoom): a new document, with an empty
\* messages subcollection.
AddRoom(room) ==
    /\ rooms' = Append(rooms, room)
    /\ messages' = Append(messages, <<>>)

\* A lookup that takes the arguments in the order the room was created with.
PrivateChatsIn_Ordered(rms, user1Id, user2Id) ==
    {id \in 1..Len(rms) :
        /\ rms[id].type = "private"
        /\ rms[id].participants = <<user1Id, user2Id>>}

\* The rooms, out of rms, that findExistingPrivateChat's query (private, with
\* user1Id among the participants) and client-side filter (user2Id among them)
\* accept.
PrivateChatsIn(rms, user1Id, user2Id) ==
    {id \in 1..Len(rms) :
        /\ rms[id].type = "private"
        /\ Includes(rms[id].participants, user1Id)
        /\ Includes(rms[id].participants, user2Id)}

PrivateChatsOf(user1Id, user2Id) == PrivateChatsIn(rooms, user1Id, user2Id)

\* createPrivateChat up to its first await: the lookup, and the return of the
\* room found.  Document ids are random, so any match may come first.
FindOrContinue(c, user1Id, user2Id, next) ==
    LET found == PrivateChatsOf(user1Id, user2Id)
    IN /\ IF found # {}
          THEN \E id \in found : Returns(c, Ret("", id))
          ELSE Goto(c, [Idle(Ret("", 0)) EXCEPT !.pc = next, !.a = user1Id, !.b = user2Id])
       /\ UNCHANGED <<variant, skew, session, rooms, messages, clock, profiles>>

CreatePrivateChat(c, user1Id, user2Id) ==
    /\ cl[c].pc = "idle"
    /\ FindOrContinue(c, user1Id, user2Id, "cpWrite")

\* getOrCreateDirectChat: its own lookup, then createPrivateChat (which looks
\* up again).
GetOrCreateDirectChat(c, user1Id, user2Id) ==
    /\ cl[c].pc = "idle"
    /\ FindOrContinue(c, user1Id, user2Id, "cpFind")

CpFind(c) ==
    /\ cl[c].pc = "cpFind"
    /\ FindOrContinue(c, cl[c].a, cl[c].b, "cpWrite")

\* A write that looks up again, in one step with the write.
CpWrite_Rechecked(c) ==
    /\ cl[c].pc = "cpWrite"
    /\ IF PrivateChatsOf(cl[c].a, cl[c].b) # {}
       THEN /\ \E id \in PrivateChatsOf(cl[c].a, cl[c].b) : Returns(c, Ret("", id))
            /\ UNCHANGED <<rooms, messages, clock>>
       ELSE /\ AddRoom(PrivateRoom(cl[c].a, cl[c].b, Now(c)))
            /\ ClockRead
            /\ Returns(c, Ret("", Len(rooms) + 1))
    /\ UNCHANGED <<variant, skew, session, profiles>>

\* createPrivateChat after the lookup found nothing: the room is written.
CpWrite(c) ==
    /\ cl[c].pc = "cpWrite"
    /\ AddRoom(PrivateRoom(cl[c].a, cl[c].b, Now(c)))
    /\ ClockRead
    /\ Returns(c, Ret("", Len(rooms) + 1))
    /\ UNCHANGED <<variant, skew, session, profiles>>

CreateGroupChat(c, name, adminId, participantIds) ==
    /\ cl[c].pc = "idle"
    /\ IF Trim(name) = <<>>
       THEN /\ Returns(c, Ret("Group name is required", 0))
            /\ UNCHANGED <<rooms, messages, clock>>
       ELSE /\ AddRoom(GroupRoom(name, adminId, participantIds, Now(c)))
            /\ ClockRead
            /\ Returns(c, Ret("", Len(rooms) + 1))
    /\ UNCHANGED <<variant, skew, session, profiles>>

\* AddUserToGroup open to every participant of the room.
AddUserToGroup_AnyParticipant(c, chatId, adminId, userId) ==
    /\ cl[c].pc = "idle"
    /\ IF ~Exists(chatId)
       THEN Returns(c, Ret("Chat room not found", 0))
       ELSE IF ~Includes(rooms[chatId].participants, adminId)
       THEN Returns(c, Ret("Only group admin can add members", 0))
       ELSE IF Includes(rooms[chatId].participants, userId)
       THEN Returns(c, Ret("User is already in the group", 0))
       ELSE Goto(c, [Idle(Ret("", 0)) EXCEPT !.pc = "augWrite", !.room = chatId, !.a = userId])
    /\ UNCHANGED <<variant, skew, session, rooms, messages, clock, profiles>>

\* addUserToGroup up to its write: the read of the room and the three checks.
AddUserToGroup(c, chatId, adminId, userId) ==
    /\ cl[c].pc = "idle"
    /\ IF ~Exists(chatId)
       THEN Returns(c, Ret("Chat room not found", 0))
       ELSE IF rooms[chatId].groupAdmin # adminId
       THEN Returns(c, Ret("Only group admin can add members", 0))
       ELSE IF Includes(rooms[chatId].participants, userId)
       THEN Returns(c, Ret("User is already in the group", 0))
       ELSE Goto(c, [Idle(Ret("", 0)) EXCEPT !.pc = "augWrite", !.room = chatId, !.a = userId])
    /\ UNCHANGED <<variant, skew, session, rooms, messages, clock, profiles>>

AugWrite(c) ==
    /\ cl[c].pc = "augWrite"
    /\ rooms' = [rooms EXCEPT ![cl[c].room].participants = ArrayUnion(@, cl[c].a)]
    /\ Returns(c, Ret("", 0))
    /\ UNCHANGED <<variant, skew, session, messages, clock, profiles>>

\* `!room.type === 'group'' compares a boolean with a string: never true.
NotGroupGuard(room) == FALSE

\* removeParticipant up to its write.
RemoveParticipant(c, roomId, participantId) ==
    /\ cl[c].pc = "idle"
    /\ IF ~Exists(roomId)
       THEN Returns(c, Ret("Chat room not found", 0))
       ELSE IF NotGroupGuard(rooms[roomId])
       THEN Returns(c, Ret("Cannot remove participant from non-group chat", 0))
       ELSE Goto(c, [Idle(Ret("", 0)) EXCEPT !.pc = "rmWrite", !.room = roomId, !.a = participantId])
    /\ UNCHANGED <<variant, skew, session, rooms, messages, clock, profiles>>

RmWrite(c) ==
    /\ cl[c].pc = "rmWrite"
    /\ rooms' = [rooms EXCEPT ![cl[c].room].participants = ArrayRemove(@, cl[c].a)]
    /\ Returns(c, Ret("", 0))
    /\ UNCHANGED <<variant, skew, session, messages, clock, profiles>>

\* UpdateRoomDisplayName with the name written before the room is checked.
UpdateRoomDisplayName_WriteFirst(c, roomId, userId, displayName) ==
    /\ cl[c].pc = "idle"
    /\ IF userId = ""
       THEN /\ Returns(c, Ret("Room ID and User ID are required", 0))
            /\ UNCHANGED rooms
       ELSE IF ~Exists(roomId)
       THEN /\ Returns(c, Ret("Chat room not found", 0))
            /\ UNCHANGED rooms
       ELSE /\ rooms' = [rooms EXCEPT ![roomId].displayNames = Put(@, userId, displayName)]
            /\ IF rooms[roomId].type # "private"
               THEN Returns(c, Ret("Display name can only be set for private chats", 0))
               ELSE IF ~Includes(rooms[roomId].participants, userId)
               THEN Returns(c, Ret("User is not a participant of this chat", 0))
               ELSE Returns(c, Ret("", 0))
    /\ UNCHANGED <<variant, skew, session, messages, clock, profiles>>

\* updateRoomDisplayName up to its write: the check of the arguments, the read
\* of the room and the checks on it.
UpdateRoomDisplayName(c, roomId, userId, displayName) ==
    /\ cl[c].pc = "idle"
    /\ IF userId = ""
       THEN Returns(c, Ret("Room ID and User ID are required", 0))
       ELSE IF ~Exists(roomId)
       THEN Returns(c, Ret("Chat room not found", 0))
       ELSE IF rooms[roomId].type # "private"
       THEN Returns(c, Ret("Display name can only be set for private chats", 0))
       ELSE IF ~Includes(rooms[roomId].participants, userId)
       THEN Returns(c, Ret("User is not a participant of this chat", 0))
       ELSE Goto(c, [Idle(Ret("", 0)) EXCEPT !.pc = "dnWrite", !.room = roomId,
                        !.a = userId, !.text = displayName])
    /\ UNCHANGED <<variant, skew, session, rooms, messages, clock, profiles>>

\* updateDoc(roomRef, {[`displayNames.${userId}`]: displayName})
DnWrite(c) ==
    /\ cl[c].pc = "dnWrite"
    /\ rooms' = [rooms EXCEPT ![cl[c].room].displayNames = Put(@, cl[c].a, cl[c].text)]
    /\ Returns(c, Ret("", 0))
    /\ UNCHANGED <<variant, skew, session, messages, clock, profiles>>

\* updateUserPresence: one updateDoc, which fails on a missing document.
UpdateUserPresence(c, chatId, userId, isActive) ==
    /\ cl[c].pc = "idle"
    /\ IF ~Exists(chatId)
       THEN /\ Returns(c, Ret("Error updating user presence", 0))
            /\ UNCHANGED rooms
       ELSE /\ rooms' = [rooms EXCEPT ![chatId].activeUsers = Put(@, userId, isActive)]
            /\ Returns(c, Ret("", 0))
    /\ UNCHANGED <<variant, skew, session, messages, clock, profiles>>

(***************************************************************************)
(* Message Ledger                                                          *)
(***************************************************************************)
Message(text, sender, ts, readBy) ==
    [text |-> text, senderId |-> sender, timestamp |-> ts, readBy |-> readBy]

\* The sender forgotten: everyone unread.
ReadByB_NoSender(participants, senderId) ==
    [p \in Range(participants) |-> FALSE]

\* Variant B, lines 209-212: everyone unread but the sender.
ReadByB(participants, senderId) ==
    [p \in Range(participants) |-> p = senderId]

\* Variant B, lines 235-239: increment(1) for everyone but the sender.
UnreadUpdateB(participants, senderId) ==
    [p \in Range(participants) \ {senderId} |-> "increment"]

\* Presence ignored: read by the sender alone.
ReadByA_NoPresence(participants, activeUsers, senderId) ==
    [p \in Range(participants) |-> p = senderId]

\* Variant A, line 662: read if active in the room, or the sender.
ReadByA(participants, activeUsers, senderId) ==
    [p \in Range(participants) |->
        (p \in DOMAIN activeUsers /\ activeUsers[p] = TRUE) \/ p = senderId]

\* Variant A, lines 665-669: increment(1) for the unread, 0 for the read.
UnreadUpdateA(readBy) ==
    [p \in DOMAIN readBy |-> IF ~readBy[p] THEN "increment" ELSE "zero"]

\* The unreadCount.<id> fields of a room update, applied by the store:
\* increment(1) adds to the stored value (0 when the field is missing).
ApplyUnread(unreadCount, upd) ==
    [p \in (DOMAIN unreadCount) \cup (DOMAIN upd) |->
        IF p \in DOMAIN upd
        THEN IF upd[p] = "increment" THEN Count(unreadCount, p) + 1 ELSE 0
        ELSE unreadCount[p]]

\* A send that writes the message and the room separately, and loses the second write.
SendBatch_MessageOnly(roomId, message, upd) ==
    /\ messages' = [messages EXCEPT ![roomId] = Append(@, message)]
    /\ rooms' = rooms

\* sendMessage's batch: batch.set(messageRef, message) and
\* batch.update(chatRef, {lastMessage, unreadCount...}), committed as one write.
SendBatch(roomId, message, upd) ==
    /\ messages' = [messages EXCEPT ![roomId] = Append(@, message)]
    /\ rooms' = [rooms EXCEPT
                    ![roomId].lastMessage =
                        LastMessage(message.text, message.senderId,
                                    message.timestamp, message.readBy),
                    ![roomId].unreadCount = ApplyUnread(@, upd)]

\* Variant A, line 641: the arguments are checked before anything is read.
SendArgsInvalid(text) == Trim(text) = <<>>

\* sendMessage up to its commit: the check of the arguments (variant A), the
\* read of the room, and the message computed from what was read.
SendMessage(c, roomId, senderId, text) ==
    /\ cl[c].pc = "idle"
    /\ IF variant = "A" /\ SendArgsInvalid(text)
       THEN /\ Returns(c, Ret("Chat ID, sender ID, and message text are required", 0))
            /\ UNCHANGED clock
       ELSE IF ~Exists(roomId)
       THEN /\ Returns(c, Ret("Chat room not found", 0))
            /\ UNCHANGED clock
       ELSE IF variant = "A"
       THEN LET readBy == ReadByA(rooms[roomId].participants,
                                  rooms[roomId].activeUsers, senderId)
            IN /\ Goto(c, [Idle(Ret("", 0)) EXCEPT
                              !.pc = "sendCommit", !.room = roomId, !.a = senderId,
                              !.text = Trim(text), !.readBy = readBy,
                              !.upd = UnreadUpdateA(readBy), !.ts = Now(c)])
               /\ ClockRead
       ELSE /\ Goto(c, [Idle(Ret("", 0)) EXCEPT
                           !.pc = "sendCommit", !.room = roomId, !.a = senderId,
                           !.text = text,
                           !.readBy = ReadByB(rooms[roomId].participants, senderId),
                           !.upd = UnreadUpdateB(rooms[roomId].participants, senderId)])
            /\ UNCHANGED clock
    /\ UNCHANGED <<variant, skew, session, rooms, messages, profiles>>

\* batch.commit() of sendMessage: applied whole, or failed whole.  Variant B's
\* serverTimestamp() is the time of the commit.
SendCommit(c) ==
    /\ cl[c].pc = "sendCommit"
    /\ \/ /\ IF variant = "A"
             THEN /\ SendBatch(cl[c].room,
                               Message(cl[c].text, cl[c].a, cl[c].ts, cl[c].readBy),
                               cl[c].upd)
                  /\ UNCHANGED clock
             ELSE /\ SendBatch(cl[c].room,
                               Message(cl[c].text, cl[c].a, clock, cl[c].readBy),
                               cl[c].upd)
                  /\ ClockRead
          /\ Returns(c, Ret("", Len(messages[cl[c].room]) + 1))
       \/ /\ Returns(c, Ret("Error sending message", 0))
          /\ UNCHANGED <<rooms, messages, clock>>
    /\ UNCHANGED <<variant, skew, session, profiles>>

\* A query that also returns the messages with no entry for the user.
UnreadIn_AbsentToo(ledger, userId) ==
    {i \in 1..Len(ledger) :
        \/ userId \notin DOMAIN ledger[i].readBy
        \/ ledger[i].readBy[userId] = FALSE}

\* The messages markMessagesAsRead's query returns, out of a room's ledger.
\* Variant B asks for readBy.<id> == false, variant A for readBy.<id> != true;
\* the store's != leaves out the documents that have no such field, so neither
\* returns a message that has no entry for the user.
UnreadIn(ledger, userId) ==
    {i \in 1..Len(ledger) :
        /\ userId \in DOMAIN ledger[i].readBy
        /\ IF variant = "A"
           THEN ledger[i].readBy[userId] # TRUE
           ELSE ledger[i].readBy[userId] = FALSE}

UnreadQuery(roomId, userId) ==
    IF ~Exists(roomId) THEN {} ELSE UnreadIn(messages[roomId], userId)

\* The update written as a whole readBy map that holds the reader alone.
MarkMessages_Replace(ledger, userId, ids) ==
    [i \in 1..Len(ledger) |->
        IF i \in ids
        THEN [ledger[i] EXCEPT !.readBy = Put(EmptyMap, userId, TRUE)]
        ELSE ledger[i]]

\* The message updates of markMessagesAsRead's batch: readBy.<id> = true on
\* every message the query returned.
MarkMessages(ledger, userId, ids) ==
    [i \in 1..Len(ledger) |->
        IF i \in ids
        THEN [ledger[i] EXCEPT !.readBy = Put(@, userId, TRUE)]
        ELSE ledger[i]]

\* The counter taken down by one instead of reset.
MarkRoom_Decrement(room, userId) ==
    [room EXCEPT
        !.unreadCount = Put(@, userId, Count(@, userId) - 1),
        !.lastMessage.readBy = Put(@, userId, TRUE),
        !.activeUsers = IF variant = "A" THEN Put(@, userId, TRUE) ELSE @]

\* The room update of markMessagesAsRead's batch; variant A also sets
\* activeUsers.<id>.
MarkRoom(room, userId) ==
    [room EXCEPT
        !.unreadCount = Put(@, userId, 0),
        !.lastMessage.readBy = Put(@, userId, TRUE),
        !.activeUsers = IF variant = "A" THEN Put(@, userId, TRUE) ELSE @]

\* The batch with every entry of the returned messages set, not the user's alone.
MarkBatch_EveryReader(roomId, userId, ids) ==
    /\ messages' = [messages EXCEPT ![roomId] =
                       [i \in 1..Len(@) |->
                           IF i \in ids
                           THEN [@[i] EXCEPT !.readBy = [p \in DOMAIN @ |-> TRUE]]
                           ELSE @[i]]]
    /\ rooms' = [rooms EXCEPT ![roomId] = MarkRoom(@, userId)]

\* markMessagesAsRead's batch, committed as one write.
MarkBatch(roomId, userId, ids) ==
    /\ messages' = [messages EXCEPT ![roomId] = MarkMessages(@, userId, ids)]
    /\ rooms' = [rooms EXCEPT ![roomId] = MarkRoom(@, userId)]

\* markMessagesAsRead up to its commit: the query.
MarkMessagesAsRead(c, roomId, userId) ==
    /\ cl[c].pc = "idle"
    /\ Goto(c, [Idle(Ret("", 0)) EXCEPT
                   !.pc = "markCommit", !.room = roomId, !.a = userId,
                   !.ids = UnreadQuery(roomId, userId)])
    /\ UNCHANGED <<variant, skew, session, rooms, messages, clock, profiles>>

\* batch.commit() of markMessagesAsRead: applied whole, or failed whole; an
\* update of a room document that does not exist fails the batch.
MarkCommit(c) ==
    /\ cl[c].pc = "markCommit"
    /\ \/ /\ Exists(cl[c].room)
          /\ MarkBatch(cl[c].room, cl[c].a, cl[c].ids)
          /\ Returns(c, Ret("", 0))
       \/ /\ Returns(c, Ret("Error marking messages as read", 0))
          /\ UNCHANGED <<rooms, messages>>
    /\ UNCHANGED <<variant, skew, session, clock, profiles>>

(***************************************************************************)
\* The lists an onSnapshot of query(messages, orderBy('timestamp', 'asc')) may
\* deliver for a ledger: all its messages, in ascending order of timestamp
\* (messages with one timestamp in the order of their document ids, which is
\* any order).
GetMessages(ledger) ==
    LET n == Len(ledger)
        orders == {p \in [1..n -> 1..n] :
                      /\ \A i, j \in 1..n : p[i] = p[j] => i = j
                      /\ \A i, j \in 1..n :
                            i < j => ledger[p[i]].timestamp <= ledger[p[j]].timestamp}
    IN {[i \in 1..n |-> ledger[p[i]]] : p \in orders}

(* Profile Directory: UserService.upsertProfile, updateProfile             *)
(***************************************************************************)
\* email.split("@")[0]: the characters before the first "@".
LocalPart(email) ==
    LET RECURSIVE Before(_)
        Before(s) == IF s = <<>> \/ Head(s) = "@" THEN <<>>
                     ELSE <<Head(s)>> \o Before(Tail(s))
    IN Before(email)

\* The decimal digits of n >= 0, as `${counter}' writes them.
Digit(d) == <<"0", "1", "2", "3", "4", "5", "6", "7", "8", "9">>[d + 1]

RECURSIVE Decimal(_)
Decimal(n) == IF n < 10 THEN <<Digit(n)>> ELSE Decimal(n \div 10) \o <<Digit(n % 10)>>

\* isUsernameTaken: a profile with that username exists (the caller's own too).
IsUsernameTaken(username) ==
    \E u \in Users : profiles[u].exists /\ profiles[u].username = username

\* upsertProfile up to its first probe or its write.  With no username and an
\* email, the username is derived from the email and probed; else it is the
\* caller's (or none, and the stored one stays).
UpsertProfile(c, userId, email, username) ==
    /\ cl[c].pc = "idle"
    /\ IF username = <<>> /\ email # <<>>
       THEN Goto(c, [Idle(Ret("", 0)) EXCEPT !.pc = "upProbe", !.a = userId,
                        !.email = email, !.username = LocalPart(email)])
       ELSE Goto(c, [Idle(Ret("", 0)) EXCEPT !.pc = "upWrite", !.a = userId,
                        !.email = email, !.username = username])
    /\ UNCHANGED <<variant, skew, session, rooms, messages, clock, profiles>>

\* One turn of `while (await this.isUsernameTaken(tempUsername))'.
UpProbe(c) ==
    /\ cl[c].pc = "upProbe"
    /\ LET tempUsername == IF cl[c].counter = 0 THEN cl[c].username
                           ELSE cl[c].username \o Decimal(cl[c].counter)
       IN IF IsUsernameTaken(tempUsername)
          THEN Goto(c, [cl[c] EXCEPT !.counter = @ + 1])
          ELSE Goto(c, [cl[c] EXCEPT !.pc = "upWrite", !.username = tempUsername,
                                     !.counter = 0])
    /\ UNCHANGED <<variant, skew, session, rooms, messages, clock, profiles>>

\* setDoc(userRef, userData, { merge: true }): undefined fields are left out.
MergeProfile(doc, email, username) ==
    [doc EXCEPT !.exists = TRUE,
                !.email = IF email # <<>> THEN email ELSE @,
                !.username = IF username # <<>> THEN username ELSE @]

\* UpWrite with the probe made again at the write: a name taken meanwhile
\* is not written.
UpWrite_Reprobed(c) ==
    /\ cl[c].pc = "upWrite"
    /\ IF \E u \in Users \ {cl[c].a} : profiles[u].exists /\ profiles[u].username = cl[c].username
       THEN /\ Returns(c, Ret("Username taken", 0))
            /\ UNCHANGED profiles
       ELSE /\ profiles' = [profiles EXCEPT ![cl[c].a] =
                             [MergeProfile(@, cl[c].email, cl[c].username)
                                 EXCEPT !.lastSeen = Now(c)]]
            /\ Returns(c, Ret("", 0))
    /\ UNCHANGED <<variant, skew, session, rooms, messages, clock>>

UpWrite(c) ==
    /\ cl[c].pc = "upWrite"
    /\ profiles' = [profiles EXCEPT ![cl[c].a] =
                             [MergeProfile(@, cl[c].email, cl[c].username)
                                 EXCEPT !.lastSeen = Now(c)]]
    /\ Returns(c, Ret("", 0))
    /\ UNCHANGED <<variant, skew, session, rooms, messages, clock>>

\* updateProfile with a username: one updateDoc, which fails on a missing
\* document.
UpdateProfile(c, userId, username) ==
    /\ cl[c].pc = "idle"
    /\ IF ~profiles[userId].exists
       THEN /\ Returns(c, Ret("Error updating profile", 0))
            /\ UNCHANGED profiles
       ELSE /\ profiles' = [profiles EXCEPT ![userId].username = username]
            /\ Returns(c, Ret("", 0))
    /\ UNCHANGED <<variant, skew, session, rooms, messages, clock>>

(***************************************************************************)
(* Sessions: AuthService.login / logout and the useAuth hook               *)
(***************************************************************************)
\* AuthService.login up to updateLastSeen: signInWithEmailAndPassword makes
\* the user the current user of the client, or fails.
Login(c, userId) ==
    /\ cl[c].pc = "idle"
    /\ \/ /\ session' = [session EXCEPT ![c] = userId]
          /\ Goto(c, [Idle(Ret("", 0)) EXCEPT !.pc = "lsWrite", !.kind = "login",
                         !.a = userId, !.ts = clock])
       \/ /\ Returns(c, Ret("auth/invalid-credential", 0))
          /\ UNCHANGED session
    /\ UNCHANGED <<variant, skew, rooms, messages, clock, profiles>>

\* AuthService.logout up to its first await: updateLastSeen for the current
\* user if there is one, signOut next.
Logout(c) ==
    /\ cl[c].pc = "idle"
    /\ Goto(c, [Idle(Ret("", 0)) EXCEPT
                   !.pc = IF session[c] # NoUser THEN "lsWrite" ELSE "signOut",
                   !.kind = "logout", !.a = session[c], !.ts = clock])
    /\ UNCHANGED <<variant, skew, session, rooms, messages, clock, profiles>>

\* updateLastSeen: updateDoc(userRef, {lastSeen: new Date()}), which fails on
\* a missing document; login returns after it, logout goes on to signOut.
UpdateLastSeen(c) ==
    /\ cl[c].pc = "lsWrite"
    /\ IF ~profiles[cl[c].a].exists
       THEN /\ Returns(c, Ret("not-found", 0))
            /\ UNCHANGED profiles
       ELSE /\ profiles' = [profiles EXCEPT ![cl[c].a].lastSeen = Now(c)]
            /\ IF cl[c].kind = "logout"
               THEN Goto(c, [cl[c] EXCEPT !.pc = "signOut"])
               ELSE Returns(c, Ret("", 0))
    /\ UNCHANGED <<variant, skew, session, rooms, messages, clock>>

\* signOut(auth) of AuthService.logout.
SignOut(c) ==
    /\ cl[c].pc = "signOut"
    /\ session' = [session EXCEPT ![c] = NoUser]
    /\ Returns(c, Ret("", 0))
    /\ UNCHANGED <<variant, skew, rooms, messages, clock, profiles>>

\* login of the useAuth hook: signInWithEmailAndPassword and nothing else.
UseAuthLogin(c, userId) ==
    /\ cl[c].pc = "idle"
    /\ \/ /\ session' = [session EXCEPT ![c] = userId]
          /\ Returns(c, Ret("", 0))
       \/ /\ Returns(c, Ret("auth/invalid-credential", 0))
          /\ UNCHANGED session
    /\ UNCHANGED <<variant, skew, rooms, messages, clock, profiles>>

\* logout of the useAuth hook: signOut and nothing else.
UseAuthLogout(c) ==
    /\ cl[c].pc = "idle"
    /\ session' = [session EXCEPT ![c] = NoUser]
    /\ Returns(c, Ret("", 0))
    /\ UNCHANGED <<variant, skew, rooms, messages, clock, profiles>>

(***************************************************************************)
(* Relationship Manager: friend requests and friends                       *)
(***************************************************************************)
\* list.filter((id) => id !== x)
Filter(list, x) == SelectSeq(list, LAMBDA id : id # x)

\* Promise.all([getDoc(userRef), getDoc(friendRef)]): two reads, in either
\* order.  This step starts the call and makes the first of them.
ReadFirst(c, kind, userId, friendId, type) ==
    /\ cl[c].pc = "idle"
    /\ \E got \in {"user", "friend"} :
          Goto(c, [Idle(Ret("", 0)) EXCEPT
                      !.pc = "frRead", !.kind = kind, !.a = userId, !.b = friendId,
                      !.type = type, !.got = got,
                      !.ud = IF got = "user" THEN profiles[userId] ELSE NoProfile,
                      !.fd = IF got = "friend" THEN profiles[friendId] ELSE NoProfile])
    /\ UNCHANGED <<variant, skew, session, rooms, messages, clock, profiles>>

SendFriendRequest(c, senderId, receiverId) == ReadFirst(c, "send", senderId, receiverId, "")

AcceptFriendRequest(c, userId, friendId) == ReadFirst(c, "accept", userId, friendId, "")

RemoveFriendRequest(c, userId, friendId, type) == ReadFirst(c, "remove", userId, friendId, type)

\* The checks of sendFriendRequest on the two documents read: the error it
\* throws, or "" when it goes on to write.
SendChecks(senderData, receiverData, senderId, receiverId) ==
    IF Includes(senderData.friends, receiverId) \/ Includes(receiverData.friends, senderId)
    THEN "Already friends"
    ELSE IF Includes(senderData.sent, receiverId) \/ Includes(receiverData.received, senderId)
    THEN "Friend request already sent"
    ELSE ""

\* AcceptChecks without the lookup of the request.
AcceptChecks_Unverified(userData, friendId) == ""

\* The check of acceptFriendRequest.
AcceptChecks(userData, friendId) ==
    IF ~Includes(userData.received, friendId) THEN "Friend request not found" ELSE ""

\* The second read, and the checks of the call on the two documents.
ReadSecond(c) ==
    /\ cl[c].pc = "frRead"
    /\ LET ud == IF cl[c].got = "user" THEN cl[c].ud ELSE profiles[cl[c].a]
           fd == IF cl[c].got = "friend" THEN cl[c].fd ELSE profiles[cl[c].b]
           err == IF ~ud.exists \/ ~fd.exists THEN "User not found"
                  ELSE IF cl[c].kind = "send" THEN SendChecks(ud, fd, cl[c].a, cl[c].b)
                  ELSE IF cl[c].kind = "accept" THEN AcceptChecks(ud, cl[c].b)
                  ELSE ""
       IN IF err # ""
          THEN Returns(c, Ret(err, 0))
          ELSE Goto(c, [cl[c] EXCEPT !.pc = "frWrite1", !.ud = ud, !.fd = fd, !.got = ""])
    /\ UNCHANGED <<variant, skew, session, rooms, messages, clock, profiles>>

\* Write1 with removeFriendRequest taking every removal for one of type "sent".
Write1_TypeIgnored(kind, type, doc, userData, friendId) ==
    IF kind = "send"
    THEN [doc EXCEPT !.sent = ArrayUnion(@, friendId)]
    ELSE IF kind = "accept"
    THEN [doc EXCEPT !.sent = userData.sent,
                     !.received = Filter(userData.received, friendId),
                     !.friends = Append(userData.friends, friendId)]
    ELSE [doc EXCEPT !.sent = Filter(userData.sent, friendId),
                     !.received = userData.received]

\* The first updateDoc of the call, on the document of `userId' (the sender).
Write1(kind, type, doc, userData, friendId) ==
    IF kind = "send"
    THEN [doc EXCEPT !.sent = ArrayUnion(@, friendId)]
    ELSE IF kind = "accept"
    THEN [doc EXCEPT !.sent = userData.sent,
                     !.received = Filter(userData.received, friendId),
                     !.friends = Append(userData.friends, friendId)]
    ELSE IF type = "sent"
    THEN [doc EXCEPT !.sent = Filter(userData.sent, friendId),
                     !.received = userData.received]
    ELSE [doc EXCEPT !.sent = userData.sent,
                     !.received = Filter(userData.received, friendId)]

\* Write2 with acceptFriendRequest leaving the friend's friends list as it was.
Write2_FriendsKept(kind, type, doc, friendData, userId) ==
    IF kind = "send"
    THEN [doc EXCEPT !.received = ArrayUnion(@, userId)]
    ELSE IF kind = "accept"
    THEN [doc EXCEPT !.sent = Filter(friendData.sent, userId),
                     !.received = friendData.received]
    ELSE IF type = "sent"
    THEN [doc EXCEPT !.sent = friendData.sent,
                     !.received = Filter(friendData.received, userId)]
    ELSE [doc EXCEPT !.sent = Filter(friendData.sent, userId),
                     !.received = friendData.received]

\* The second updateDoc of the call, on the document of `friendId'.
Write2(kind, type, doc, friendData, userId) ==
    IF kind = "send"
    THEN [doc EXCEPT !.received = ArrayUnion(@, userId)]
    ELSE IF kind = "accept"
    THEN [doc EXCEPT !.sent = Filter(friendData.sent, userId),
                     !.received = friendData.received,
                     !.friends = Append(friendData.friends, userId)]
    ELSE IF type = "sent"
    THEN [doc EXCEPT !.sent = friendData.sent,
                     !.received = Filter(friendData.received, userId)]
    ELSE [doc EXCEPT !.sent = Filter(friendData.sent, userId),
                     !.received = friendData.received]

\* An updateDoc the store did not apply (Unavailable): the call throws.
WriteFails(c) ==
    /\ Returns(c, Ret("Unavailable", 0))
    /\ UNCHANGED profiles

FrWrite1(c) ==
    /\ cl[c].pc = "frWrite1"
    /\ \/ /\ profiles' = [profiles EXCEPT ![cl[c].a] =
                            Write1(cl[c].kind, cl[c].type, @, cl[c].ud, cl[c].b)]
          /\ Goto(c, [cl[c] EXCEPT !.pc = "frWrite2"])
       \/ WriteFails(c)
    /\ UNCHANGED <<variant, skew, session, rooms, messages, clock>>

FrWrite2(c) ==
    /\ cl[c].pc = "frWrite2"
    /\ \/ /\ profiles' = [profiles EXCEPT ![cl[c].b] =
                            Write2(cl[c].kind, cl[c].type, @, cl[c].fd, cl[c].a)]
          /\ Returns(c, Ret("", 0))
       \/ WriteFails(c)
    /\ UNCHANGED <<variant, skew, session, rooms, messages, clock>>

\* RemoveFriendBatch as a lone update of the user's own document.
RemoveFriendBatch_UserOnly(ps, userId, friendId) ==
    [ps EXCEPT ![userId].friends = ArrayRemove(@, friendId)]

\* The batch of removeFriend: both arrayRemove updates, or neither.
RemoveFriendBatch(ps, userId, friendId) ==
    [ps EXCEPT ![userId].friends = ArrayRemove(@, friendId),
               ![friendId].friends = ArrayRemove(ps[friendId].friends, userId)]

\* removeFriend: no read; the commit fails as a whole when a document is
\* missing or the store is unavailable.
RemoveFriend(c, userId, friendId) ==
    /\ cl[c].pc = "idle"
    /\ \/ /\ profiles[userId].exists /\ profiles[friendId].exists
          /\ profiles' = RemoveFriendBatch(profiles, userId, friendId)
          /\ Returns(c, Ret("", 0))
       \/ /\ Returns(c, Ret("Error removing friend", 0))
          /\ UNCHANGED profiles
    /\ UNCHANGED <<variant, skew, session, rooms, messages, clock>>

(***************************************************************************)
(* Specifications                                                          *)
(***************************************************************************)
\* The empty store and the idle clients.
InitStore ==
    /\ variant \in {"A", "B"}
    /\ rooms = <<>>
    /\ messages = <<>>
    /\ clock = 0
    /\ cl = [c \in Clients |-> Idle(Ret("", 0))]
    /\ session = [c \in Clients |-> NoUser]
    /\ profiles = [u \in Users |-> NoProfile]

\* Every device clock agrees with the store's.
Init == InitStore /\ skew = [c \in Clients |-> 0]

\* The calls that may add a room, while at most n rooms come of it.
Create(c, n) ==
    \/ \E p \in Pairs :
          /\ RoomBudget(n) \/ PrivateChatsOf(p[1], p[2]) # {}
          /\ CreatePrivateChat(c, p[1], p[2])
    \/ \E p \in Pairs :
          /\ RoomBudget(n) \/ PrivateChatsOf(p[1], p[2]) # {}
          /\ GetOrCreateDirectChat(c, p[1], p[2])
    \/ \E nm \in Names, a \in Admins, ids \in IdLists :
          /\ RoomBudget(n)
          /\ CreateGroupChat(c, nm, a, ids)

CreateSteps(c) ==
    \/ CpFind(c)
    \/ CpWrite(c)

AddMember(c, ids) ==
    \/ \E r \in ids, a \in Actors, u \in Joiners : AddUserToGroup(c, r, a, u)
    \/ AugWrite(c)

RemoveMember(c, ids) ==
    \/ \E r \in ids, u \in Leavers : RemoveParticipant(c, r, u)
    \/ RmWrite(c)

Ledger(c, ids) ==
    \/ \E r \in ids, u \in PresenceUsers, on \in BOOLEAN : UpdateUserPresence(c, r, u, on)
    \/ \E r \in ids, u \in Senders, t \in Texts :
          MsgBudget /\ SendAttempts < MaxAttempts /\ SendMessage(c, r, u, t)
    \/ SendCommit(c)
    \/ \E r \in ids, u \in Readers : MarkMessagesAsRead(c, r, u)
    \/ MarkCommit(c)

\* One room and its ledger, under the calls of client c.
LedgerStep(c) ==
    \/ Create(c, Cardinality(LedgerRooms))
    \/ CreateSteps(c)
    \/ AddMember(c, LedgerRooms)
    \/ Ledger(c, LedgerRooms)

\* The room registry (no messages), under the calls of client c.
RegistryStep(c) ==
    \/ Create(c, MaxRooms)
    \/ CreateSteps(c)
    \/ AddMember(c, RoomIds)
    \/ RemoveMember(c, RoomIds)

\* Calls made one after the other: one client, each call awaited.
NextSeq ==
    \/ LedgerStep(1)
    \/ RemoveMember(1, LedgerRooms)

SpecSeq == Init /\ [][NextSeq]_vars

\* Two clients, interleaved at their awaits: client 1 makes any call, client 2
\* the message ledger's calls on the room.
Next ==
    \/ LedgerStep(1)
    \/ Ledger(2, LedgerRooms)

Spec == Init /\ [][Next]_vars

NextRegistrySeq == RegistryStep(1)

SpecRegistrySeq == Init /\ [][NextRegistrySeq]_vars

\* The room registry under the interleaved calls of the clients.
NextRegistry == \E c \in Clients : RegistryStep(c)

SpecRegistry == Init /\ [][NextRegistry]_vars

\* Rooms created and users added to groups by two clients, with no removal.
NextGroupAdds ==
    \E c \in Clients :
        \/ Create(c, MaxRooms)
        \/ CreateSteps(c)
        \/ AddMember(c, RoomIds)

SpecGroupAdds == Init /\ [][NextGroupAdds]_vars

\* The messages a room may come to hold where the order of messages matters.
MaxSeries == 2

\* The device clocks: the store's time, or two ticks ahead of it.
Skews == {0, 2}

InitDevices == InitStore /\ skew \in [Clients -> Skews]

\* A bound on the model: a send starts only while the ledgers stay within
\* MaxSeries messages, and within MaxSeries + 1 sends attempted.
SeriesBudget ==
    /\ TotalMsgs + Cardinality({d \in Clients : cl[d].pc = "sendCommit"}) < MaxSeries
    /\ SendAttempts < MaxSeries + 1

\* One room, and messages sent into it by client c.
Series(c) ==
    \/ Create(c, 1)
    \/ CreateSteps(c)
    \/ \E r \in LedgerRooms, u \in Senders, t \in Texts :
          SeriesBudget /\ SendMessage(c, r, u, t)
    \/ SendCommit(c)

\* Two clients with their own device clocks, taking turns: a call starts and
\* proceeds only while the other client is idle.
NextTurns ==
    \E c \in Clients :
        /\ \A d \in Clients \ {c} : cl[d].pc = "idle"
        /\ Series(c)

SpecTurns == InitDevices /\ [][NextTurns]_vars

\* The members of one room, with every user open to removal: rooms created,
\* users added and removed, one call after the other.
NextMembersSeq ==
    \/ Create(1, 1)
    \/ CreateSteps(1)
    \/ AddMember(1, RoomIds)
    \/ \E r \in RoomIds, u \in Users : RemoveParticipant(1, r, u)
    \/ RmWrite(1)

SpecMembersSeq == Init /\ [][NextMembersSeq]_vars

\* Two clients whose device clocks agree with the store's, sending into one
\* room with their calls interleaved.
NextSenders == \E c \in Clients : Series(c)

SpecSenders == Init /\ [][NextSenders]_vars

\* The address user u registers with, and the ordered pairs of distinct users.
EmailOf(u) == <<u, "@", "x">>

\* A bound on the model: an acceptFriendRequest starts only while no friends
\* list can come to hold more than MaxFriends entries by it.
FriendsBudget ==
    \A u \in Users :
        Len(profiles[u].friends)
            + Cardinality({d \in Clients : cl[d].kind = "accept"}) < MaxFriends

\* The pairs (userId, friendId) of the calls: u1 and u2 in both orders.
FriendPairs == {<<"u1", "u2">>, <<"u2", "u1">>}

\* The removals of a request of u1 to u2: u1 cancels it, u2 rejects it.
Removals == {<<"u1", "u2", "sent">>, <<"u2", "u1", "received">>}

\* A user without a profile registers: AuthService.register calls
\* upsertProfile(uid, {email, username}) with no username.
Register(c) ==
    \/ \E u \in Users : ~profiles[u].exists /\ UpsertProfile(c, u, EmailOf(u), <<>>)
    \/ UpProbe(c)
    \/ UpWrite(c)

\* The calls of the relationship manager by client c, and their steps.
Friends(c, pairs) ==
    \/ \E p \in pairs : SendFriendRequest(c, p[1], p[2])
    \/ \E p \in pairs : FriendsBudget /\ AcceptFriendRequest(c, p[1], p[2])
    \/ \E r \in Removals : RemoveFriendRequest(c, r[1], r[2], r[3])
    \/ \E p \in pairs : RemoveFriend(c, p[1], p[2])
    \/ ReadSecond(c)
    \/ FrWrite1(c)
    \/ FrWrite2(c)

\* The profile specifications leave the chat service out: one version of it.
InitProfiles == Init /\ variant = "A"

\* Profiles and friends, calls made one after the other.
NextFriendsSeq == Register(1) \/ Friends(1, FriendPairs)

SpecFriendsSeq == InitProfiles /\ [][NextFriendsSeq]_vars

\* Profiles and friends under the interleaved calls of the clients.
\* Meanwhile a second client: u3 requests u2, and u2 accepts.
Others(c) ==
    \/ SendFriendRequest(c, "u3", "u2")
    \/ FriendsBudget /\ AcceptFriendRequest(c, "u2", "u3")
    \/ ReadSecond(c)
    \/ FrWrite1(c)
    \/ FrWrite2(c)

NextFriends ==
    \/ Register(1)
    \/ Friends(1, FriendPairs)
    \/ Others(2)

SpecFriends == InitProfiles /\ [][NextFriends]_vars

\* The profile data of the calls: two addresses with the same local part, and
\* a caller's username (none, or one the derivation can also produce).
Emails == {<<"a", "@", "x">>, <<"a", "@", "y">>}

Usernames == {<<>>, <<"a", "1">>}

\* The profile directory, calls made one after the other.
NextProfilesSeq ==
    \/ \E u \in Users, e \in Emails, n \in Usernames : UpsertProfile(1, u, e, n)
    \/ UpProbe(1)
    \/ UpWrite(1)
    \/ \E u \in Users, n \in Usernames \ {<<>>} : UpdateProfile(1, u, n)

SpecProfilesSeq == InitProfiles /\ [][NextProfilesSeq]_vars

\* The users whose profiles the two clients create.
Newcomers == {"u1", "u2"}

\* The profile directory under two clients that create profiles without a
\* username of their own, so that every username is derived and probed.
NextProfiles ==
    \E c \in Clients :
        \/ \E u \in Newcomers, e \in Emails : UpsertProfile(c, u, e, <<>>)
        \/ UpProbe(c)
        \/ UpWrite(c)

SpecProfiles == InitProfiles /\ [][NextProfiles]_vars

\* One client: registration, sign-in and sign-out by the service and by the
\* hook, one room and the messages sent into it, one call after the other.
NextSessionsSeq ==
    \/ \E u \in Senders : ~profiles[u].exists /\ UpsertProfile(1, u, EmailOf(u), <<>>)
    \/ UpProbe(1)
    \/ UpWrite(1)
    \/ \E u \in Senders : Login(1, u)
    \/ Logout(1)
    \/ UpdateLastSeen(1)
    \/ SignOut(1)
    \/ \E u \in Senders : UseAuthLogin(1, u)
    \/ UseAuthLogout(1)
    \/ Create(1, 1)
    \/ CreateSteps(1)
    \/ \E r \in LedgerRooms, u \in Senders, t \in Texts :
          MsgBudget /\ SendAttempts < MaxAttempts /\ SendMessage(1, r, u, t)
    \/ SendCommit(1)

SpecSessionsSeq == Init /\ [][NextSessionsSeq]_vars

\* Profiles created and created again without a username, one call after
\* the other: every stored username is a derived one.
NextDerivedSeq ==
    \/ \E u \in Newcomers, e \in Emails : UpsertProfile(1, u, e, <<>>)
    \/ UpProbe(1)
    \/ UpWrite(1)

SpecDerivedSeq == InitProfiles /\ [][NextDerivedSeq]_vars

\* The users updateRoomDisplayName is called for (one of them no user id at
\* all), and the names it is given.
Namers == {"", "u1", "u3"}

DisplayNames == {<<"n">>}

\* The operations that check their arguments or the documents read before
\* they write, called one after the other: profiles and friend requests on
\* one side, rooms and messages on the other.  The users register before the
\* first room is created.
NextValidationSeq ==
    \/ \E u \in Newcomers :
          /\ ~profiles[u].exists
          /\ rooms = <<>>
          /\ UpsertProfile(1, u, EmailOf(u), <<>>)
    \/ UpProbe(1)
    \/ UpWrite(1)
    \/ \E p \in FriendPairs : SendFriendRequest(1, p[1], p[2])
    \/ \E p \in FriendPairs : FriendsBudget /\ AcceptFriendRequest(1, p[1], p[2])
    \/ ReadSecond(1)
    \/ FrWrite1(1)
    \/ FrWrite2(1)
    \/ Create(1, 1)
    \/ CreateSteps(1)
    \/ AddMember(1, RoomIds)
    \/ \E r \in LedgerRooms, u \in Senders, t \in Texts :
          MsgBudget /\ SendAttempts < MaxAttempts /\ SendMessage(1, r, u, t)
    \/ SendCommit(1)
    \/ \E r \in RoomIds, u \in Namers, n \in DisplayNames : UpdateRoomDisplayName(1, r, u, n)
    \/ DnWrite(1)

SpecValidationSeq == Init /\ [][NextValidationSeq]_vars

(***************************************************************************)
(* Properties                                                              *)
(***************************************************************************)
\* The summary of room r is that of the message appended last.
SummaryOfLast(r) ==
    LET m == messages[r][Len(messages[r])]
    IN /\ rooms[r].lastMessage.text = m.text
       /\ rooms[r].lastMessage.senderId = m.senderId
       /\ rooms[r].lastMessage.timestamp = m.timestamp

\* The summary of room r is the one the room was created with.
SeedSummary(r) ==
    rooms[r].lastMessage.text \in {<<"Chat created">>, <<"Group created">>}

\* This step appends a message to room r.
Appended(r) ==
    /\ Len(messages'[r]) = Len(messages[r]) + 1
    /\ SubSeq(messages'[r], 1, Len(messages[r])) = messages[r]

\* This step applies the room update of client c's pending send to room r.
SummaryApplied(c, r) ==
    /\ cl[c].pc = "sendCommit"
    /\ cl[c].room = r
    /\ rooms'[r].lastMessage =
          LastMessage(cl[c].text, cl[c].a,
                      IF variant = "A" THEN cl[c].ts ELSE clock, cl[c].readBy)
    /\ rooms'[r].unreadCount = ApplyUnread(rooms[r].unreadCount, cl[c].upd)

\* This step is a commit of client c's send that the store refused.
SendFailed(c) ==
    /\ cl[c].pc = "sendCommit"
    /\ cl'[c].pc = "idle"
    /\ cl'[c].ret.err = "Error sending message"

\* C1: sendMessage is all-or-nothing.  In every state the summary of a room is
\* that of the last message of its ledger (the creation's, while the ledger is
\* empty); a step appends a message to a room exactly when it applies the room
\* update of that send (lastMessage replaced, unreadCount changed); and a
\* commit that fails appends nothing and leaves the room documents as they were.
C1_SendAllOrNothing ==
    /\ [](\A r \in 1..Len(rooms) :
            IF messages[r] = <<>> THEN SeedSummary(r) ELSE SummaryOfLast(r))
    /\ [][/\ \A r \in 1..Len(rooms) :
               Appended(r) <=> \E c \in Clients : SummaryApplied(c, r)
          /\ \A c \in Clients :
               SendFailed(c) => UNCHANGED <<rooms, messages>>]_vars

\* A send failed at its commit, and another was committed.
C1_Witness ==
    /\ \E c \in Clients : cl[c].ret.err = "Error sending message"
    /\ \E r \in 1..Len(rooms) : messages[r] # <<>>

\* This step starts a send of client c: the room is read, the message computed.
SendStarted(c) ==
    /\ cl[c].pc = "idle"
    /\ cl'[c].pc = "sendCommit"

\* This step is a commit of client c's send that the store applied.
SendCommitted(c) ==
    /\ cl[c].pc = "sendCommit"
    /\ cl'[c].pc = "idle"
    /\ cl'[c].ret.err = ""

\* The message a committed send of client c has appended.
NewMessage(c) == messages'[cl[c].room][Len(messages'[cl[c].room])]

\* C2: variant B.  A send by S into a room whose participants are P when it is
\* read computes readBy with an entry for every member of P and no other, true
\* for S (when S is in P), false for every other member; the commit stores the
\* message with that readBy and raises unreadCount[X] by exactly 1 over its
\* value before the commit, for every X in P other than S.
C2_SendReadByAndUnreadB ==
    [][\A c \in Clients :
         /\ (variant = "B" /\ SendStarted(c)) =>
               LET P == Range(rooms[cl'[c].room].participants)
                   S == cl'[c].a
                   readBy == cl'[c].readBy
               IN /\ DOMAIN readBy = P
                  /\ S \in P => readBy[S] = TRUE
                  /\ \A X \in P \ {S} : readBy[X] = FALSE
         /\ (variant = "B" /\ SendCommitted(c)) =>
               LET r == cl[c].room
                   S == cl[c].a
               IN /\ NewMessage(c).readBy = cl[c].readBy
                  /\ NewMessage(c).senderId = S
                  /\ \A X \in (DOMAIN cl[c].readBy) \ {S} :
                        Count(rooms'[r].unreadCount, X)
                            = Count(rooms[r].unreadCount, X) + 1]_vars

\* Variant B: a message sent into a room of three, unread by the two others,
\* and counted for the one who joined.
C2_Witness ==
    /\ variant = "B"
    /\ \E r \in 1..Len(rooms) :
          /\ messages[r] # <<>>
          /\ LET m == messages[r][1]
             IN /\ DOMAIN m.readBy = Users
                /\ m.readBy[m.senderId]
                /\ \A X \in Users \ {m.senderId} : ~m.readBy[X]
                /\ Count(rooms[r].unreadCount, "u3") = 1

\* C3: variant A.  A send by S computes, for every participant p of the room
\* when it is read, readBy[p] true exactly when p = S or activeUsers[p] is true;
\* the commit stores the message with that readBy, raises unreadCount[p] by
\* exactly 1 for every p with readBy[p] false and sets it to 0 for every p with
\* readBy[p] true.
C3_SendReadByAndUnreadA ==
    [][\A c \in Clients :
         /\ (variant = "A" /\ SendStarted(c)) =>
               LET room == rooms[cl'[c].room]
                   S == cl'[c].a
                   readBy == cl'[c].readBy
               IN /\ DOMAIN readBy = Range(room.participants)
                  /\ \A p \in Range(room.participants) :
                        readBy[p] <=>
                            \/ p = S
                            \/ (p \in DOMAIN room.activeUsers /\ room.activeUsers[p])
         /\ (variant = "A" /\ SendCommitted(c)) =>
               LET r == cl[c].room
               IN /\ NewMessage(c).readBy = cl[c].readBy
                  /\ \A p \in DOMAIN cl[c].readBy :
                        Count(rooms'[r].unreadCount, p)
                            = IF cl[c].readBy[p] THEN 0
                              ELSE Count(rooms[r].unreadCount, p) + 1]_vars

\* Variant A: u1's message in a room of three, read by u2 (active) and unread
\* by u3, whose count it raised.
C3_Witness ==
    /\ variant = "A"
    /\ \E r \in 1..Len(rooms) :
          /\ messages[r] # <<>>
          /\ LET m == messages[r][1]
             IN /\ m.senderId = "u1"
                /\ DOMAIN m.readBy = Users
                /\ m.readBy["u2"]
                /\ ~m.readBy["u3"]
                /\ Count(rooms[r].unreadCount, "u2") = 0
                /\ Count(rooms[r].unreadCount, "u3") = 1

\* C4: after any sendMessage(R, S, text) commits, unreadCount[S] of room R is 0.
C4_SenderUnreadZero ==
    [][\A c \in Clients :
         SendCommitted(c) => Count(rooms'[cl[c].room].unreadCount, cl[c].a) = 0]_vars

\* This step is a commit of client c's markMessagesAsRead that the store applied.
MarkCommitted(c) ==
    /\ cl[c].pc = "markCommit"
    /\ cl'[c].pc = "idle"
    /\ cl'[c].ret.err = ""

\* readBy[u] of message m is true (it is not when false, and not when absent).
ReadBy(m, u) == u \in DOMAIN m.readBy /\ m.readBy[u] = TRUE

\* C5: after markMessagesAsRead(R, U) by a participant U of R, with no other
\* call on R meanwhile, every message of R's ledger whose readBy[U] was not true
\* (false or absent) has readBy[U] = true, unreadCount[U] = 0 and
\* lastMessage.readBy[U] = true.
C5_MarkReadsEveryMessage ==
    [][\A c \in Clients :
         (MarkCommitted(c) /\ cl[c].a \in Range(rooms[cl[c].room].participants)) =>
            LET r == cl[c].room
                U == cl[c].a
            IN /\ \A i \in 1..Len(messages[r]) : ReadBy(messages'[r][i], U)
               /\ Count(rooms'[r].unreadCount, U) = 0
               /\ U \in DOMAIN rooms'[r].unreadCount
               /\ ReadBy(rooms'[r].lastMessage, U)]_vars

\* markMessagesAsRead(r, u) as one call on the room document and ledger given.
MarkCall(room, ledger, u) ==
    [room |-> MarkRoom(room, u),
     ledger |-> MarkMessages(ledger, u, UnreadIn(ledger, u))]

\* C6: markMessagesAsRead is idempotent.  From every state calls made one after
\* the other reach, a second markMessagesAsRead(R, U) right after the first
\* leaves the room document and every message as the first left them.
C6_MarkIdempotent ==
    \A r \in 1..Len(rooms), u \in Users :
        LET once == MarkCall(rooms[r], messages[r], u)
        IN MarkCall(once.room, once.ledger, u) = once

\* u2 has marked as read a message that u1 sent while u2 was not reading.
C6_Witness ==
    /\ variant = "B"
    /\ \E c \in Clients : cl[c].pc = "idle" /\ cl[c].ret = Ret("", 0)
    /\ \E r \in 1..Len(rooms) :
          /\ messages[r] # <<>>
          /\ messages[r][1].senderId = "u1"
          /\ ReadBy(messages[r][1], "u2")
          /\ Count(rooms[r].unreadCount, "u2") = 0
          /\ ReadBy(rooms[r].lastMessage, "u2")

\* C7: the direct-chat scenario.  In a private room of U1 and U2 whose ledger
\* holds exactly one message, sent by U1: while the message's readBy[U2] is
\* false, unreadCount[U2] is 1; once U2 has marked it read, unreadCount[U2] is 0.
C7_DirectChatScenario ==
    \A r \in 1..Len(rooms) :
        (/\ rooms[r].type = "private"
         /\ Len(rooms[r].participants) = 2
         /\ rooms[r].participants[1] # rooms[r].participants[2]
         /\ Len(messages[r]) = 1
         /\ messages[r][1].senderId = rooms[r].participants[1])
        => LET U2 == rooms[r].participants[2]
               m == messages[r][1]
           IN /\ U2 \in DOMAIN m.readBy
              /\ ~m.readBy[U2] => Count(rooms[r].unreadCount, U2) = 1
              /\ m.readBy[U2] => Count(rooms[r].unreadCount, U2) = 0

\* The number of messages of a ledger whose readBy[u] is false.
UnreadMessages(ledger, u) ==
    Cardinality({i \in 1..Len(ledger) :
                    u \in DOMAIN ledger[i].readBy /\ ledger[i].readBy[u] = FALSE})

\* C8: for every room R and participant U, unreadCount[U] (0 when absent) is the
\* number of messages of R's ledger whose readBy[U] is false.
C8_UnreadCountIsUnreadMessages ==
    \A r \in 1..Len(rooms) :
        \A U \in Range(rooms[r].participants) :
            Count(rooms[r].unreadCount, U) = UnreadMessages(messages[r], U)

\* The private rooms, out of rms, whose participants include both a and b.
PairRooms(rms, a, b) ==
    {id \in 1..Len(rms) :
        rms[id].type = "private" /\ {a, b} \subseteq Range(rms[id].participants)}

\* This step is a call of createPrivateChat or getOrCreateDirectChat by client c
\* for users a and b, up to its first await.
CreateCalled(c, a, b) ==
    \/ CreatePrivateChat(c, a, b)
    \/ GetOrCreateDirectChat(c, a, b)

\* C9: calls made one after the other.  No two private rooms hold the same two
\* users; and createPrivateChat or getOrCreateDirectChat for users that a
\* private room holds, in either order of the arguments, writes no room and
\* returns the id of that room.
C9_OnePrivateRoomPerPair ==
    /\ [](\A a, b \in Users : a # b => Cardinality(PairRooms(rooms, a, b)) <= 1)
    /\ [][\A c \in Clients, a, b \in Users :
            (PairRooms(rooms, a, b) # {} /\ CreateCalled(c, a, b)) =>
                /\ rooms' = rooms
                /\ cl'[c].pc = "idle"
                /\ cl'[c].ret.err = ""
                /\ cl'[c].ret.id \in PairRooms(rooms, a, b)]_vars

\* The private room of u1 and u2 was returned by a call made after a second
\* room (a group) was written: by a call that found it.
C9_Witness ==
    /\ Len(rooms) = 2
    /\ rooms[1].type = "private"
    /\ rooms[2].type = "group"
    /\ PairRooms(rooms, "u1", "u2") = {1}
    /\ cl[1].pc = "idle"
    /\ cl[1].ret = Ret("", 1)

\* This step is the write of client c's createPrivateChat.
PrivateWritten(c) ==
    /\ cl[c].pc = "cpWrite"
    /\ cl'[c].pc = "idle"

\* C10: createPrivateChat's lookup and write are not one step.  The write of a
\* call whose lookup found nothing adds a private room of its two users
\* whatever was written since the lookup: when the lookups of two calls for the
\* same users both ran before either write, the second write makes a second
\* room for them.
C10_CreateNotAtomic ==
    [][\A c \in Clients :
         PrivateWritten(c) =>
            LET a == cl[c].a
                b == cl[c].b
            IN /\ Len(rooms') = Len(rooms) + 1
               /\ rooms'[Len(rooms')].type = "private"
               /\ rooms'[Len(rooms')].participants = <<a, b>>
               /\ PairRooms(rooms', a, b) = PairRooms(rooms, a, b) \cup {Len(rooms')}
               /\ cl'[c].ret = Ret("", Len(rooms'))]_vars

\* Two private rooms of u1 and u2.
C10_Witness ==
    /\ Len(rooms) >= 2
    /\ Cardinality(PairRooms(rooms, "u1", "u2")) >= 2

\* C11: every private room has exactly two participants, distinct, and no step
\* changes the participant list of a private room.
C11_PrivateParticipantsFixed ==
    /\ [](\A r \in 1..Len(rooms) :
            rooms[r].type = "private" =>
                /\ Len(rooms[r].participants) = 2
                /\ rooms[r].participants[1] # rooms[r].participants[2])
    /\ [][\A r \in 1..Len(rooms) :
            rooms[r].type = "private" =>
                rooms'[r].participants = rooms[r].participants]_vars

\* C12: removeParticipant on a private room fails with the non-group error and
\* writes nothing; a step takes a participant out of a room only when the room
\* is a group.
C12_RemoveOnlyFromGroups ==
    [][/\ \A c \in Clients, r \in 1..Len(rooms), u \in Users :
            (rooms[r].type = "private" /\ RemoveParticipant(c, r, u)) =>
                /\ cl'[c].pc = "idle"
                /\ cl'[c].ret.err = "Cannot remove participant from non-group chat"
                /\ rooms' = rooms
       /\ \A r \in 1..Len(rooms) :
            ~(Range(rooms[r].participants) \subseteq Range(rooms'[r].participants)) =>
                rooms[r].type = "group"]_vars

\* The relationship of users A and B in the profiles ps: none at all; a request
\* of A pending with B and nothing else; friends with no request of A left.
NoneRel(ps, A, B) ==
    /\ ~Includes(ps[A].friends, B) /\ ~Includes(ps[B].friends, A)
    /\ ~Includes(ps[A].sent, B) /\ ~Includes(ps[B].received, A)
    /\ ~Includes(ps[B].sent, A) /\ ~Includes(ps[A].received, B)

PendingRel(ps, A, B) ==
    /\ ~Includes(ps[A].friends, B) /\ ~Includes(ps[B].friends, A)
    /\ Includes(ps[A].sent, B) /\ Includes(ps[B].received, A)
    /\ ~Includes(ps[B].sent, A) /\ ~Includes(ps[A].received, B)

FriendsRel(ps, A, B) ==
    /\ Includes(ps[A].friends, B) /\ Includes(ps[B].friends, A)
    /\ ~Includes(ps[A].sent, B) /\ ~Includes(ps[B].received, A)

\* The profiles as client c's call read them.
AsRead(c) == [profiles EXCEPT ![cl[c].a] = cl[c].ud, ![cl[c].b] = cl[c].fd]

\* This step is the second write of client c's call of that kind, applied.
Completed(c, kind) ==
    /\ cl[c].pc = "frWrite2"
    /\ cl[c].kind = kind
    /\ cl'[c].pc = "idle"
    /\ cl'[c].ret.err = ""

\* C13: calls made one after the other.  sendFriendRequest(A, B) from no
\* relationship leaves the request pending (B in A.sent, A in B.received), and
\* acceptFriendRequest(B, A) from there ends with B in A.friends, A in
\* B.friends, B not in A.sent and A not in B.received.
C13_SendThenAccept ==
    [][\A c \in Clients :
         /\ (Completed(c, "send") /\ NoneRel(AsRead(c), cl[c].a, cl[c].b)) =>
               PendingRel(profiles', cl[c].a, cl[c].b)
         /\ (Completed(c, "accept") /\ PendingRel(AsRead(c), cl[c].b, cl[c].a)) =>
               FriendsRel(profiles', cl[c].b, cl[c].a)]_vars

\* u2 has accepted the request of u1: each is the other's one friend.
C13_Witness ==
    /\ FriendsRel(profiles, "u1", "u2")
    /\ profiles["u1"].friends = <<"u2">>
    /\ profiles["u2"].friends = <<"u1">>
    /\ cl[1].pc = "idle"
    /\ cl[1].ret.err = ""

\* C14: calls made one after the other.  With a request of A pending with B,
\* removeFriendRequest(B, A, "received") and removeFriendRequest(A, B, "sent")
\* both end with B not in A.sent, A not in B.received and both friends lists
\* as they were.
C14_RejectOrCancel ==
    [][\A c \in Clients :
         Completed(c, "remove") =>
            LET A == IF cl[c].type = "sent" THEN cl[c].a ELSE cl[c].b
                B == IF cl[c].type = "sent" THEN cl[c].b ELSE cl[c].a
            IN PendingRel(AsRead(c), A, B) =>
                  /\ NoneRel(profiles', A, B)
                  /\ profiles'[A].friends = AsRead(c)[A].friends
                  /\ profiles'[B].friends = AsRead(c)[B].friends]_vars

\* u2 is rejecting the pending request of u1: its own list is written.
C14_Witness ==
    /\ cl[1].pc = "frWrite2"
    /\ cl[1].kind = "remove"
    /\ cl[1].type = "received"
    /\ cl[1].a = "u2"
    /\ PendingRel(AsRead(1), "u1", "u2")
    /\ ~Includes(profiles["u2"].received, "u1")

\* C15: removeFriend(A, B) is one outcome: a call that succeeds leaves neither
\* in the other's friends list, a call that fails leaves every profile as it
\* was; no step takes one of them out and leaves the other.
C15_RemoveFriendAtomic ==
    [][\A c \in Clients, p \in FriendPairs :
         (cl[c].pc = "idle" /\ cl'[c].pc = "idle" /\ RemoveFriend(c, p[1], p[2])) =>
            IF cl'[c].ret.err = ""
            THEN /\ ~Includes(profiles'[p[1]].friends, p[2])
                 /\ ~Includes(profiles'[p[2]].friends, p[1])
            ELSE profiles' = profiles]_vars

\* A removeFriend of two friends has failed: both are still friends.
C15_Witness ==
    /\ \E c \in Clients : cl[c].pc = "idle" /\ cl[c].ret.err = "Error removing friend"
    /\ Includes(profiles["u1"].friends, "u2")
    /\ Includes(profiles["u2"].friends, "u1")

\* C16: after completed calls no profile holds a user id both in its friends
\* list and in its friendRequests.sent or friendRequests.received list.
C16_FriendsNotPending ==
    (\A c \in Clients : cl[c].pc = "idle") =>
        \A u \in Users, f \in Users :
            Includes(profiles[u].friends, f) =>
                ~Includes(profiles[u].sent, f) /\ ~Includes(profiles[u].received, f)

\* A request of A is pending with B in the profiles ps.
Requested(ps, A, B) == Includes(ps[A].sent, B) /\ Includes(ps[B].received, A)

\* This step makes the checks of client c's sendFriendRequest.
SendChecked(c) ==
    /\ cl[c].pc = "frRead"
    /\ cl[c].kind = "send"
    /\ cl'[c].pc # "frRead"

\* C17: sendFriendRequest(A, B), between two users who are not friends, fails
\* with 'Friend request already sent' and writes nothing when a request is
\* pending between them in either direction.
C17_AlreadyRequestedEitherWay ==
    [][\A c \in Clients :
         LET A == cl[c].a
             B == cl[c].b
         IN (/\ SendChecked(c)
             /\ profiles[A].exists /\ profiles[B].exists
             /\ ~Includes(profiles[A].friends, B) /\ ~Includes(profiles[B].friends, A)
             /\ Requested(profiles, A, B) \/ Requested(profiles, B, A))
            => /\ cl'[c].pc = "idle"
               /\ cl'[c].ret.err = "Friend request already sent"
               /\ profiles' = profiles]_vars

\* C18: while no call is between its two writes, B is in A.friendRequests.sent
\* if and only if A is in B.friendRequests.received.
C18_RequestEdgeTwoSided ==
    (\A c \in Clients : cl[c].pc # "frWrite2") =>
        \A A \in Users, B \in Users :
            Includes(profiles[A].sent, B) <=> Includes(profiles[B].received, A)

\* This step makes the checks of client c's acceptFriendRequest.
AcceptChecked(c) ==
    /\ cl[c].pc = "frRead"
    /\ cl[c].kind = "accept"
    /\ cl'[c].pc # "frRead"

C20_UsernamesUnique ==
    \A u \in Users, v \in Users :
        (/\ u # v
         /\ profiles[u].exists /\ profiles[v].exists
         /\ profiles[u].username # <<>>)
        => profiles[u].username # profiles[v].username

\* C21: no two profiles hold the same email: an upsertProfile for a new user
\* with an email that another profile has does not store a second profile
\* with that email.
C21_EmailsUnique ==
    \A u \in Users, v \in Users :
        (/\ u # v
         /\ profiles[u].exists /\ profiles[v].exists
         /\ profiles[u].email # <<>>)
        => profiles[u].email # profiles[v].email

\* C22: the probe of a username reserves nothing.  A call of upsertProfile
\* that has found its derived username free stores that username, also when
\* another user's call has taken the name since the probe: two calls that
\* both probe before either writes leave two profiles with one username.
C22_ProbeNoReservation ==
    [][\A c \in Clients :
          (cl[c].pc = "upWrite" /\ cl'[c].pc = "idle")
          => /\ cl'[c].ret.err = ""
             /\ profiles'[cl[c].a].exists
             /\ profiles'[cl[c].a].username = cl[c].username]_vars

\* Two calls for different users have both returned and the two profiles
\* hold the same derived username.
C22_Witness ==
    /\ cl[1].pc = "idle" /\ cl[2].pc = "idle"
    /\ cl[1].ret.err = "" /\ cl[2].ret.err = ""
    /\ profiles["u1"].exists /\ profiles["u2"].exists
    /\ profiles["u1"].username = <<"a">>
    /\ profiles["u2"].username = <<"a">>

\* The outcome the checks of addUserToGroup(r, actor, u) must have on the
\* rooms rms: the error, or "" when the user is to be added.
AddOutcome(rms, r, actor, u) ==
    IF r \notin 1..Len(rms) THEN "Chat room not found"
    ELSE IF rms[r].groupAdmin # actor THEN "Only group admin can add members"
    ELSE IF u \in Range(rms[r].participants) THEN "User is already in the group"
    ELSE ""

\* C23: addUserToGroup adds the user only when the actor is the stored
\* groupAdmin.  It fails with 'Chat room not found' on a missing room, with
\* 'Only group admin can add members' for any other actor, with 'User is
\* already in the group' for a participant, and a failure leaves the rooms as
\* they were; the write of a call that passed adds the user.
C23_AddOnlyByAdmin ==
    [][/\ \A c \in Clients, r \in RoomIds, actor \in Actors, u \in Joiners :
             AddUserToGroup(c, r, actor, u)
             => /\ rooms' = rooms
                /\ IF AddOutcome(rooms, r, actor, u) = ""
                   THEN cl'[c].pc = "augWrite"
                   ELSE /\ cl'[c].pc = "idle"
                        /\ cl'[c].ret.err = AddOutcome(rooms, r, actor, u)
       /\ \A c \in Clients :
             (cl[c].pc = "augWrite" /\ cl'[c].pc = "idle")
             => /\ cl'[c].ret.err = ""
                /\ Range(rooms'[cl[c].room].participants)
                      = Range(rooms[cl[c].room].participants) \cup {cl[c].a}]_vars

\* A participant who is not the admin has been refused, in a group the admin
\* has added a user to.
C23_Witness ==
    /\ cl[1].pc = "idle"
    /\ cl[1].ret.err = "Only group admin can add members"
    /\ \E r \in 1..Len(rooms) :
          /\ rooms[r].type = "group"
          /\ rooms[r].groupAdmin = "u1"
          /\ {"u2", "u3"} \subseteq Range(rooms[r].participants)

C25_CreateGroupChat ==
    [][\A c \in Clients, nm \in Names, adminId \in Admins, ids \in IdLists :
          CreateGroupChat(c, nm, adminId, ids)
          => IF \A i \in 1..Len(nm) : nm[i] = " "
             THEN /\ cl'[c].ret.err = "Group name is required"
                  /\ rooms' = rooms
                  /\ messages' = messages
             ELSE /\ cl'[c].ret.err = ""
                  /\ Len(rooms') = Len(rooms) + 1
                  /\ SubSeq(rooms', 1, Len(rooms)) = rooms
                  /\ LET room == rooms'[Len(rooms')]
                     IN /\ room.type = "group"
                        /\ room.groupAdmin = adminId
                        /\ Range(room.participants) = {adminId} \cup Range(ids)
                        /\ Cardinality(Range(room.participants)) = Len(room.participants)
                        /\ DOMAIN room.lastMessage.readBy = {adminId}
                        /\ room.lastMessage.readBy[adminId]]_vars

\* A group has been created and a later call with a blank name has failed.
C25_Witness ==
    /\ cl[1].pc = "idle"
    /\ cl[1].ret.err = "Group name is required"
    /\ \E r \in 1..Len(rooms) :
          /\ rooms[r].type = "group"
          /\ rooms[r].participants = <<"u1", "u2">>

\* The errors by which the operations refuse a call: an invalid argument, a
\* conflict, a forbidden actor, a document not found.
ValidationErrors ==
    {"User not found", "Already friends", "Friend request already sent",
     "Friend request not found", "Chat room not found",
     "Only group admin can add members", "User is already in the group",
     "Group name is required",
     "Chat ID, sender ID, and message text are required",
     "Room ID and User ID are required",
     "Display name can only be set for private chats",
     "User is not a participant of this chat"}

\* C26: a call that fails with a validation error has written nothing: the
\* step that returns the error leaves profiles, rooms and messages as they
\* are, and it is the first step of the call or follows only reads.
C26_ValidationBeforeWrite ==
    [][\A c \in Clients :
          (/\ cl'[c] # cl[c]
           /\ cl'[c].pc = "idle"
           /\ cl'[c].ret.err \in ValidationErrors)
          => /\ profiles' = profiles
             /\ rooms' = rooms
             /\ messages' = messages
             /\ cl[c].pc \in {"idle", "frRead"}]_vars

\* updateRoomDisplayName has been refused on a group room, with a profile, a
\* room and a message stored, and the room has no display name.
C26_Witness ==
    /\ cl[1].pc = "idle"
    /\ cl[1].ret.err = "Display name can only be set for private chats"
    /\ profiles["u1"].exists
    /\ Len(rooms) = 1
    /\ Len(messages[1]) = 1
    /\ rooms[1].displayNames = EmptyMap

\* C27: every message of every ledger has a text that is not blank: a
\* sendMessage with a text that is empty after trimming appends nothing.
C27_NoBlankMessage ==
    \A r \in 1..Len(messages) :
        \A i \in 1..Len(messages[r]) :
            \E k \in 1..Len(messages[r][i].text) : messages[r][i].text[k] # " "

\* C28: the users with an entry in a message's readBy are the participants
\* the room had when the send read it, and no others later: the commit stores
\* the map as computed, and no step, a markMessagesAsRead by a user added
\* since included, gives a stored message a further entry.
C28_ReadByKeysFixed ==
    [][/\ \A c \in Clients :
             /\ SendStarted(c)
                => DOMAIN cl'[c].readBy = Range(rooms[cl'[c].room].participants)
             /\ SendCommitted(c)
                => DOMAIN NewMessage(c).readBy = DOMAIN cl[c].readBy
       /\ \A r \in 1..Len(messages) :
             \A i \in 1..Len(messages[r]) :
                 DOMAIN messages'[r][i].readBy \subseteq DOMAIN messages[r][i].readBy]_vars

\* u3 was added after the message was sent and has marked the room as read
\* (the summary has its entry); the message has no entry for u3.
C28_Witness ==
    /\ Len(messages) >= 1
    /\ Len(messages[1]) = 1
    /\ "u3" \in Range(rooms[1].participants)
    /\ "u3" \in DOMAIN rooms[1].lastMessage.readBy
    /\ rooms[1].lastMessage.readBy["u3"]
    /\ "u3" \notin DOMAIN messages[1][1].readBy

\* C29: the message a sendMessage stores has readBy[S] = true for its
\* sender S, whoever the sender is.
C29_SenderHasRead ==
    [][\A c \in Clients :
          SendCommitted(c) => ReadBy(NewMessage(c), NewMessage(c).senderId)]_vars

C31_DeliveredInInsertionOrder ==
    \A r \in 1..Len(messages) :
        \A list \in GetMessages(messages[r]) : list = messages[r]

\* A login of client c by AuthService completes with this step.
LoginCompleted(c) ==
    /\ cl[c].pc = "lsWrite"
    /\ cl[c].kind = "login"
    /\ cl'[c].pc = "idle"
    /\ cl'[c].ret.err = ""

\* A login of client c by the useAuth hook completes with this step.
HookLoginCompleted(c) ==
    /\ cl[c].pc = "idle"
    /\ cl'[c].pc = "idle"
    /\ session'[c] # NoUser
    /\ session'[c] # session[c]

\* The sign-out of a logout of client c takes effect with this step.
SignedOut(c) == session[c] # NoUser /\ session'[c] = NoUser

\* C32: lastSeen of a profile is updated by every successful login of its
\* user, by every logout before the sign-out takes effect, and by every
\* message the user sends: it is then no older than the start of the call
\* (for a message, than the message).
C32_LastSeenUpdated ==
    [][\A c \in Clients :
          /\ LoginCompleted(c) => profiles'[cl[c].a].lastSeen >= cl[c].ts
          /\ (HookLoginCompleted(c) /\ profiles[session'[c]].exists)
             => profiles'[session'[c]].lastSeen >= clock
          /\ (SignedOut(c) /\ profiles[session[c]].exists)
             => profiles[session[c]].lastSeen
                   >= IF cl[c].pc = "signOut" THEN cl[c].ts ELSE clock
          /\ (SendCommitted(c) /\ profiles[cl[c].a].exists)
             => profiles'[cl[c].a].lastSeen >= NewMessage(c).timestamp]_vars

\* C33: every room of type group has at least one participant.
C33_GroupNotEmpty ==
    \A r \in 1..Len(rooms) :
        rooms[r].type = "group" => Len(rooms[r].participants) >= 1

\* The number of messages of a ledger that user u has an entry for and has
\* not read.
UnreadBy(ledger, u) ==
    Cardinality({i \in 1..Len(ledger) :
                    u \in DOMAIN ledger[i].readBy /\ ledger[i].readBy[u] = FALSE})

\* The commit of client c's markMessagesAsRead follows a send that another
\* user committed after the query of the call: the ledger holds a message
\* unread by the user that the query did not return.
MarkOvertaken(c) ==
    /\ MarkCommitted(c)
    /\ \E i \in 1..Len(messages[cl[c].room]) \ cl[c].ids :
          LET m == messages[cl[c].room][i]
          IN /\ m.senderId # cl[c].a
             /\ cl[c].a \in DOMAIN m.readBy
             /\ m.readBy[cl[c].a] = FALSE

\* C34: when a send by another user commits between the query and the commit
\* of markMessagesAsRead(R, U), then with both calls completed unreadCount[U]
\* is the number of messages of R that U has not read, and
\* lastMessage.readBy[U] is readBy[U] of the newest message.
C34_MarkDuringSend ==
    [][\A c \in Clients :
          (MarkOvertaken(c) /\ \A d \in Clients \ {c} : cl[d].pc = "idle")
          => LET r == cl[c].room
                 u == cl[c].a
                 ledger == messages'[r]
                 newest == ledger[Len(ledger)]
             IN /\ Count(rooms'[r].unreadCount, u) = UnreadBy(ledger, u)
                /\ ReadBy(rooms'[r].lastMessage, u) = ReadBy(newest, u)]_vars

\* C35: while no friend operation is between its two writes, friendship is
\* symmetric: B is among A's friends exactly when A is among B's.
C35_FriendsSymmetric ==
    (\A c \in Clients : cl[c].pc # "frWrite2")
    => \A A \in Users, B \in Users :
          Includes(profiles[A].friends, B) <=> Includes(profiles[B].friends, A)

\* C36: with no call in progress, the lastMessage of a room that holds a
\* message has the text and the senderId of the message that getMessages
\* delivers last (the last in timestamp order).
C36_SummaryIsNewest ==
    (\A c \in Clients : cl[c].pc = "idle")
    => \A r \in 1..Len(messages) :
          messages[r] # <<>>
          => \A list \in GetMessages(messages[r]) :
                /\ rooms[r].lastMessage.text = list[Len(list)].text
                /\ rooms[r].lastMessage.senderId = list[Len(list)].senderId

\* C37: no user id occurs more than once in a friends list.
C37_FriendsNoRepeats ==
    \A u \in Users :
        \A i, j \in 1..Len(profiles[u].friends) :
            profiles[u].friends[i] = profiles[u].friends[j] => i = j

\* C38: upsertProfile without a username, for a user whose profile exists
\* with the same email and a derived username, leaves the stored username as
\* it is.
C38_UpsertKeepsUsername ==
    [][\A c \in Clients :
          (/\ cl[c].pc = "upWrite"
           /\ cl'[c].pc = "idle"
           /\ profiles[cl[c].a].exists
           /\ profiles[cl[c].a].email = cl[c].email)
          => profiles'[cl[c].a].username = profiles[cl[c].a].username]_vars

\* Maps m and n agree on every key but u.
SameButFor(m, n, u) ==
    /\ DOMAIN m \ {u} = DOMAIN n \ {u}
    /\ \A k \in DOMAIN m \ {u} : m[k] = n[k]

\* C39: the commit of markMessagesAsRead(R, U) changes U's entries of room R
\* and nothing else: other users' readBy entries in the messages and in the
\* summary, their unreadCount and activeUsers entries, the participants, the
\* text, sender and timestamp of the summary and of every message, every
\* other room and ledger, and every profile stay as they were.
C39_MarkFrame ==
    [][\A c \in Clients :
          (cl[c].pc = "markCommit" /\ cl'[c].pc = "idle")
          => LET r == cl[c].room
                 u == cl[c].a
             IN /\ profiles' = profiles
                /\ Len(rooms') = Len(rooms)
                /\ Len(messages') = Len(messages)
                /\ \A q \in 1..Len(rooms) :
                      q # r => rooms'[q] = rooms[q] /\ messages'[q] = messages[q]
                /\ r \in 1..Len(rooms)
                   => /\ rooms'[r].participants = rooms[r].participants
                      /\ rooms'[r].type = rooms[r].type
                      /\ rooms'[r].groupAdmin = rooms[r].groupAdmin
                      /\ rooms'[r].lastMessage.text = rooms[r].lastMessage.text
                      /\ rooms'[r].lastMessage.senderId = rooms[r].lastMessage.senderId
                      /\ rooms'[r].lastMessage.timestamp = rooms[r].lastMessage.timestamp
                      /\ SameButFor(rooms'[r].lastMessage.readBy, rooms[r].lastMessage.readBy, u)
                      /\ SameButFor(rooms'[r].unreadCount, rooms[r].unreadCount, u)
                      /\ SameButFor(rooms'[r].activeUsers, rooms[r].activeUsers, u)
                      /\ Len(messages'[r]) = Len(messages[r])
                      /\ \A i \in 1..Len(messages[r]) :
                            /\ messages'[r][i].text = messages[r][i].text
                            /\ messages'[r][i].senderId = messages[r][i].senderId
                            /\ messages'[r][i].timestamp = messages[r][i].timestamp
                            /\ SameButFor(messages'[r][i].readBy, messages[r][i].readBy, u)]_vars

\* u2 has marked a room of three as read: its receipt and counter are set,
\* and u3's are as the send left them.
C39_Witness ==
    /\ variant = "B"
    /\ Len(messages) >= 1
    /\ Len(messages[1]) = 1
    /\ messages[1][1].senderId = "u1"
    /\ ReadBy(messages[1][1], "u2")
    /\ "u3" \in DOMAIN messages[1][1].readBy
    /\ messages[1][1].readBy["u3"] = FALSE
    /\ Count(rooms[1].unreadCount, "u3") = 1
    /\ "u2" \in DOMAIN rooms[1].unreadCount
    /\ rooms[1].unreadCount["u2"] = 0

====
